---- MODULE Spec2Model ----
(***************************************************************************)
(* console-menu (src/src/lib.rs): the Menu struct, Menu::new, Menu::show,  *)
(* the key loop of Menu::run_navigation, Menu::set_page, Menu::draw and    *)
(* Menu::exit, as a state machine.                                         *)
(*                                                                         *)
(* Option indices, pages and page bounds are 0-based as in the source; the *)
(* option list is a sequence of labels, a string is a sequence of          *)
(* characters, Option<String> is a sequence of length 0 (None) or 1 (Some).*)
(* All terminal output goes through a buffered Term, so the terminal only  *)
(* changes at the flush that ends draw and the flush that ends exit.       *)
(***************************************************************************)
EXTENDS Integers, Sequences, FiniteSets

\* ---------------------------------------------------------------- bounds
MaxOptions == 5
MaxRows == 12
MaxCols == 12
MaxLabel == 3
MaxTitle == 2
MaxMsg == 1
MaxInvoke == 2
MaxDowns == 5

\* ------------------------------------------------------ program constants
\* Term::size() is (u16, u16): the subtraction of line 181 is done in u16.
U16 == 65536
\* rows reserved for the box chrome (line 181)
ReservedRows == 6

VARIABLES
    pc,        \* where the caller / the loop of run_navigation stands
    menu,      \* the Menu struct (NoMenu until Menu::new has returned)
    key,       \* the local `key` of run_navigation: the last key read
    invoked,   \* invoked[i]: how many times options[i].action was called
    cursor,    \* the terminal's cursor: "shown" or "hidden"
    screen,    \* the terminal's content: "untouched", "frame", "cleared"
    call,      \* the option count and the terminal rows read by the last
               \* Menu::new or show call, until the next key is read
    downs,     \* k when the keys read since Menu::new are exactly k Downs, else -1
    trail,     \* the Up/Down keys read last (at most two), each with the
               \* (page, option) it was read in; emptied by any other key
    config     \* the MenuProps handed to Menu::new

vars == <<pc, menu, key, invoked, cursor, screen, call, downs, trail, config>>

\* ------------------------------------------------------------------ keys
UpKeys == {"ArrowUp", "k"}
DownKeys == {"ArrowDown", "j"}
LeftKeys == {"ArrowLeft", "h", "b"}
RightKeys == {"ArrowRight", "l", "w"}
ExitKeys == {"Escape", "q", "Backspace"}
ConfirmKeys == {"Enter"}
OtherKeys == {"Tab"}
Keys == UpKeys \cup DownKeys \cup LeftKeys \cup RightKeys \cup ExitKeys
          \cup ConfirmKeys \cup OtherKeys

\* ------------------------------------------------------------ inputs
Str(c, len) == [j \in 1..len |-> c]
\* the label of the i-th option handed to Menu::new (lengths 1..MaxLabel)
Label(i) == Str("o", 1 + (i % MaxLabel))
OptionLists == {[i \in 1..n |-> Label(i)] : n \in 0..MaxOptions}
Titles == {<<>>, Str("t", MaxTitle)}
Messages == {<<>>, Str("m", MaxMsg)}
\* Option<u8>: None, Some(c)
None == <<>>
Some(c) == <<c>>
\* the colours of MenuProps::default()
DefaultBg == 8
DefaultFg == 15
DefaultMsg == 7
PropsSet ==
    [title : Titles, message : Messages, exit_on_action : BOOLEAN,
     bg_color : {DefaultBg}, fg_color : {DefaultFg},
     title_color : {None}, selected_color : {None},
     msg_color : {Some(DefaultMsg)}]
TermRows == 1..MaxRows
TermCols == 1..MaxCols

NoMenu == [options |-> <<>>]
NoProps == [title |-> <<>>]
NoCall == [n |-> -1, rows |-> 0]
NoKey == "none"

\* ------------------------------------------------------- pure functions
clamp(num, min, max) ==
    LET out == IF num < min THEN min ELSE num
    IN  IF out > max THEN max ELSE out

Max2(a, b) == IF b > a THEN b ELSE a

RECURSIVE FoldLabels(_, _)
\* options.iter().fold(0, |max, option| ...) over the labels from index i on
FoldLabels(options, max) ==
    IF options = <<>> THEN max
    ELSE FoldLabels(Tail(options), Max2(max, Len(Head(options))))

\* Option::unwrap_or
unwrap_or(opt, default) == IF opt = None THEN default ELSE opt[1]

\* Some(s) when s is not empty, else None
Then(cond, s) == IF cond THEN <<s>> ELSE <<>>

\* set_page without `self.selected_option = self.page_start`
set_page_keeps_selection(m, page) ==
    LET page_start == page * m.options_per_page
    IN  [m EXCEPT !.selected_page = page,
                  !.page_start = page_start,
                  !.page_end =
                      IF Len(m.options) > page_start + m.options_per_page
                      THEN page_start + m.options_per_page - 1
                      ELSE Len(m.options) - 1]

\* set_page without the else branch that ends the last page at the last option
set_page_unclipped(m, page) ==
    LET page_start == page * m.options_per_page
    IN  [m EXCEPT !.selected_page = page,
                  !.page_start = page_start,
                  !.selected_option = page_start,
                  !.page_end = page_start + m.options_per_page - 1]

set_page(m, page) ==
    LET page_start == page * m.options_per_page
    IN  [m EXCEPT !.selected_page = page,
                  !.page_start = page_start,
                  !.selected_option = page_start,
                  !.page_end =
                      IF Len(m.options) > page_start + m.options_per_page
                      THEN page_start + m.options_per_page - 1
                      ELSE Len(m.options) - 1]

\* the u16 subtraction `size().0 - 6` overflows (panics when overflow checks
\* are on, wraps when they are off)
RowsOverflow(rows) == rows < ReservedRows

\* Menu::new for a non-empty option list, the subtraction done wrapping
MenuOf(options, props, rows) ==
    LET opp0 == (rows - ReservedRows) % U16
        options_per_page == clamp(opp0, 1, Len(options))
        num_pages == ((Len(options) - 1) \div options_per_page) + 1
        w0 == FoldLabels(options, 0)
        w1 == IF Len(props.title) > w0 THEN Len(props.title) ELSE w0
        max_width == IF Len(props.message) > w1 THEN Len(props.message) ELSE w1
    IN  set_page([options |-> options,
                  title |-> Then(props.title # <<>>, props.title),
                  message |-> Then(props.message # <<>>, props.title),
                  exit_on_action |-> props.exit_on_action,
                  bg_color |-> props.bg_color,
                  fg_color |-> props.fg_color,
                  title_color |-> unwrap_or(props.title_color, props.fg_color),
                  selected_color |-> unwrap_or(props.selected_color, props.fg_color),
                  msg_color |-> unwrap_or(props.msg_color, props.fg_color),
                  selected_option |-> 0,
                  selected_page |-> 0,
                  options_per_page |-> options_per_page,
                  num_pages |-> num_pages,
                  page_start |-> 0,
                  page_end |-> 0,
                  max_width |-> max_width], 0)

\* ArrowUp without `self.selected_option = self.page_end`
ArrowUp_to_first(m) ==
    IF m.selected_option # m.page_start
    THEN [m EXCEPT !.selected_option = @ - 1]
    ELSE IF m.selected_page # 0
         THEN set_page(m, m.selected_page - 1)
         ELSE m

ArrowUp(m) ==
    IF m.selected_option # m.page_start
    THEN [m EXCEPT !.selected_option = @ - 1]
    ELSE IF m.selected_page # 0
         THEN LET m1 == set_page(m, m.selected_page - 1)
              IN  [m1 EXCEPT !.selected_option = m1.page_end]
         ELSE m

\* ArrowDown comparing with num_pages instead of num_pages - 1
ArrowDown_off_by_one(m) ==
    IF m.selected_option < m.page_end
    THEN [m EXCEPT !.selected_option = @ + 1]
    ELSE IF m.selected_page < m.num_pages
         THEN set_page(m, m.selected_page + 1)
         ELSE m

ArrowDown(m) ==
    IF m.selected_option < m.page_end
    THEN [m EXCEPT !.selected_option = @ + 1]
    ELSE IF m.selected_page < m.num_pages - 1
         THEN set_page(m, m.selected_page + 1)
         ELSE m

\* ArrowLeft going to the first page instead of the previous one
ArrowLeft_to_first_page(m) ==
    IF m.selected_page # 0 THEN set_page(m, 0) ELSE m

ArrowLeft(m) ==
    IF m.selected_page # 0 THEN set_page(m, m.selected_page - 1) ELSE m

\* ArrowRight comparing with num_pages instead of num_pages - 1
ArrowRight_off_by_one(m) ==
    IF m.selected_page < m.num_pages
    THEN set_page(m, m.selected_page + 1)
    ELSE m

ArrowRight(m) ==
    IF m.selected_page < m.num_pages - 1
    THEN set_page(m, m.selected_page + 1)
    ELSE m

\* the lines of the box besides the options
ExtraLines(m) ==
    2 + (IF m.title # <<>> THEN 2 ELSE 0) + (IF m.message # <<>> THEN 1 ELSE 0)

\* draw runs to its flush: neither unsigned subtraction underflows and the
\* slice options[page_start..=page_end] is in range
DrawCompletes(m, rows, cols) ==
    /\ cols \div 2 >= (m.max_width + 4) \div 2
    /\ rows \div 2 >= (m.options_per_page + ExtraLines(m)) \div 2
    /\ m.page_start <= m.page_end + 1
    /\ m.page_end < Len(m.options)

\* The terminal size is read anew by every draw (stdout.size()): some size
\* the terminal may have lets this draw complete / makes it panic.
CanDraw(m) == \E rows \in TermRows, cols \in TermCols : DrawCompletes(m, rows, cols)
CanPanic(m) == \E rows \in TermRows, cols \in TermCols : ~DrawCompletes(m, rows, cols)

\* ------------------------------------------------------------- ghosts
Pos(m) == <<m.selected_page, m.selected_option>>
Step(kind, m) == [kind |-> kind, from |-> Pos(m)]
Push(kind, m) ==
    IF Len(trail) < 2 THEN Append(trail, Step(kind, m))
    ELSE <<trail[2], Step(kind, m)>>

\* ------------------------------------------------------------------ Init
Init ==
    /\ pc = "start"
    /\ menu = NoMenu
    /\ key = NoKey
    /\ invoked = <<>>
    /\ cursor = "shown"
    /\ screen = "untouched"
    /\ call = NoCall
    /\ downs = -1
    /\ trail = <<>>
    /\ config = NoProps

\* --------------------------------------------------------------- Menu::new
\* assert!(!options.is_empty()) fails
NewEmpty ==
    /\ pc = "start"
    /\ UNCHANGED config
    /\ \E options \in OptionLists, props \in PropsSet :
          /\ options = <<>>
          /\ call' = [n |-> Len(options), rows |-> 0]
    /\ pc' = "new_panicked"
    /\ UNCHANGED <<menu, key, invoked, cursor, screen, downs, trail>>

\* `size().0 - 6` overflows in a build with overflow checks
NewOverflow ==
    /\ pc = "start"
    /\ UNCHANGED config
    /\ \E options \in OptionLists, props \in PropsSet, rows \in TermRows :
          /\ options # <<>>
          /\ RowsOverflow(rows)
          /\ call' = [n |-> Len(options), rows |-> rows]
    /\ pc' = "new_panicked"
    /\ UNCHANGED <<menu, key, invoked, cursor, screen, downs, trail>>

\* Menu::new returns (on overflow: a build without overflow checks)
NewMenu ==
    /\ pc = "start"
    /\ \E options \in OptionLists, props \in PropsSet, rows \in TermRows :
          /\ options # <<>>
          /\ menu' = MenuOf(options, props, rows)
          /\ invoked' = [i \in 0..(Len(options) - 1) |-> 0]
          /\ call' = [n |-> Len(options), rows |-> rows]
          /\ config' = props
    /\ pc' = "idle"
    /\ downs' = 0
    /\ UNCHANGED <<key, cursor, screen, trail>>

\* -------------------------------------------------------------- Menu::exit
\* clear_screen, show_cursor, flush
\* exit without show_cursor
exit_cursor_left_hidden == "hidden"
exit_cursor == "shown"
exit_screen == "cleared"

\* -------------------------------------------------------------- Menu::show
\* the first draw completes on a terminal of `rows` rows, whatever its width
DrawsAt(m, rows) == \E cols \in TermCols : DrawCompletes(m, rows, cols)

\* hide_cursor, the newline padding and the first draw reach the terminal at
\* draw's flush; then run_navigation blocks in read_key.  `rows` is the
\* term_height show reads (line 222), the height the first draw reads too.
Show ==
    /\ pc = "idle"
    /\ UNCHANGED config
    /\ \E rows \in TermRows :
          /\ DrawsAt(menu, rows) = TRUE
          /\ call' = [n |-> Len(menu.options), rows |-> rows]
    /\ pc' = "read"
    /\ cursor' = "hidden"
    /\ screen' = "frame"
    /\ key' = NoKey
    /\ UNCHANGED <<menu, invoked, downs, trail>>

\* the first draw panics before its flush: nothing reaches the terminal
ShowAbort ==
    /\ pc = "idle"
    /\ UNCHANGED config
    /\ CanPanic(menu) = TRUE
    /\ pc' = "aborted"
    /\ key' = NoKey
    /\ call' = NoCall
    /\ UNCHANGED <<menu, invoked, cursor, screen, downs, trail>>

\* ------------------------------------------------- Menu::run_navigation
RECURSIVE SumTo(_, _)
SumTo(f, i) == IF i < 0 THEN 0 ELSE f[i] + SumTo(f, i - 1)
Invocations == SumTo(invoked, Len(menu.options) - 1)

KeyUp ==
    /\ pc = "read"
    /\ UNCHANGED config
    /\ \E k \in UpKeys : key' = k
    /\ menu' = ArrowUp(menu)
    /\ pc' = "draw"
    /\ downs' = -1
    /\ trail' = Push("Up", menu)
    /\ call' = NoCall
    /\ UNCHANGED <<invoked, cursor, screen>>

KeyDown ==
    /\ pc = "read"
    /\ UNCHANGED config
    /\ \E k \in DownKeys : key' = k
    /\ menu' = ArrowDown(menu)
    /\ pc' = "draw"
    /\ downs' = IF downs \in 0..(MaxDowns - 1) THEN downs + 1 ELSE -1
    /\ trail' = Push("Down", menu)
    /\ call' = NoCall
    /\ UNCHANGED <<invoked, cursor, screen>>

KeyLeft ==
    /\ pc = "read"
    /\ UNCHANGED config
    /\ \E k \in LeftKeys : key' = k
    /\ menu' = ArrowLeft(menu)
    /\ pc' = "draw"
    /\ downs' = -1
    /\ trail' = <<>>
    /\ call' = NoCall
    /\ UNCHANGED <<invoked, cursor, screen>>

KeyRight ==
    /\ pc = "read"
    /\ UNCHANGED config
    /\ \E k \in RightKeys : key' = k
    /\ menu' = ArrowRight(menu)
    /\ pc' = "draw"
    /\ downs' = -1
    /\ trail' = <<>>
    /\ call' = NoCall
    /\ UNCHANGED <<invoked, cursor, screen>>

\* the Exit arm calling the selected action as the Enter arm does
KeyExit_runs_action ==
    /\ pc = "read"
    /\ UNCHANGED config
    /\ \E k \in ExitKeys : key' = k
    /\ cursor' = "shown"
    /\ screen' = "cleared"
    /\ pc' = "action"
    /\ downs' = -1
    /\ trail' = <<>>
    /\ call' = NoCall
    /\ UNCHANGED <<menu, invoked>>

\* Escape, q, Backspace: exit, break; run_navigation and show return
KeyExit ==
    /\ pc = "read"
    /\ UNCHANGED config
    /\ \E k \in ExitKeys : key' = k
    /\ cursor' = exit_cursor
    /\ screen' = exit_screen
    /\ pc' = "idle"
    /\ downs' = -1
    /\ trail' = <<>>
    /\ call' = NoCall
    /\ UNCHANGED <<menu, invoked>>

\* the Enter arm without the exit of line 265 ahead of the action
KeyEnter_no_exit ==
    /\ pc = "read"
    /\ UNCHANGED config
    /\ Invocations < MaxInvoke
    /\ \E k \in ConfirmKeys : key' = k
    /\ UNCHANGED <<cursor, screen>>
    /\ pc' = "action"
    /\ downs' = -1
    /\ trail' = <<>>
    /\ call' = NoCall
    /\ UNCHANGED <<menu, invoked>>

\* Enter: with exit_on_action, exit runs before the action is called
KeyEnter ==
    /\ pc = "read"
    /\ UNCHANGED config
    /\ Invocations < MaxInvoke
    /\ \E k \in ConfirmKeys : key' = k
    /\ IF menu.exit_on_action
       THEN cursor' = exit_cursor /\ screen' = exit_screen
       ELSE UNCHANGED <<cursor, screen>>
    /\ pc' = "action"
    /\ downs' = -1
    /\ trail' = <<>>
    /\ call' = NoCall
    /\ UNCHANGED <<menu, invoked>>

\* any other key: no arm of the match does anything
KeyOther ==
    /\ pc = "read"
    /\ UNCHANGED config
    /\ \E k \in OtherKeys : key' = k
    /\ pc' = "draw"
    /\ downs' = -1
    /\ trail' = <<>>
    /\ call' = NoCall
    /\ UNCHANGED <<menu, invoked, cursor, screen>>

\* the action called at line 266 and again at line 269
CallAction_twice(selected) == [invoked EXCEPT ![selected] = @ + 2]

\* the option indexed by `selected` is called
CallAction(selected) == [invoked EXCEPT ![selected] = @ + 1]

\* the break of line 267 taken whatever exit_on_action is
Action_always_breaks ==
    /\ pc = "action"
    /\ UNCHANGED config
    /\ invoked' = [invoked EXCEPT ![menu.selected_option] = @ + 1]
    /\ UNCHANGED <<cursor, screen>>
    /\ pc' = "idle"
    /\ UNCHANGED <<menu, key, call, downs, trail>>

\* the loop continuing to read_key right after the action, past line 274
Action_skips_draw ==
    /\ pc = "action"
    /\ UNCHANGED config
    /\ invoked' = [invoked EXCEPT ![menu.selected_option] = @ + 1]
    /\ \E nested \in BOOLEAN :
          IF nested
          THEN cursor' = "shown" /\ screen' = "cleared"
          ELSE UNCHANGED <<cursor, screen>>
    /\ pc' = IF menu.exit_on_action THEN "idle" ELSE "read"
    /\ UNCHANGED <<menu, key, call, downs, trail>>

\* (self.options[self.selected_option].action)() runs and returns.  An action
\* is any closure; one that shows a nested menu to its end leaves the terminal
\* as that menu's exit does.
Action ==
    /\ pc = "action"
    /\ UNCHANGED config
    /\ invoked' = CallAction(menu.selected_option)
    /\ \E nested \in BOOLEAN :
          IF nested
          THEN cursor' = exit_cursor /\ screen' = exit_screen
          ELSE UNCHANGED <<cursor, screen>>
    /\ pc' = IF menu.exit_on_action THEN "idle" ELSE "draw"
    /\ UNCHANGED <<menu, key, call, downs, trail>>

\* self.draw(stdout) at the end of a loop turn, then read_key again
Draw ==
    /\ pc = "draw"
    /\ UNCHANGED config
    /\ CanDraw(menu) = TRUE
    /\ screen' = "frame"
    /\ pc' = "read"
    /\ UNCHANGED <<menu, key, invoked, cursor, call, downs, trail>>

DrawAbort ==
    /\ pc = "draw"
    /\ UNCHANGED config
    /\ CanPanic(menu) = TRUE
    /\ pc' = "aborted"
    /\ UNCHANGED <<menu, key, invoked, cursor, screen, call, downs, trail>>

Next ==
    \/ NewEmpty
    \/ NewOverflow
    \/ NewMenu
    \/ Show
    \/ ShowAbort
    \/ KeyUp
    \/ KeyDown
    \/ KeyLeft
    \/ KeyRight
    \/ KeyExit
    \/ KeyEnter
    \/ KeyOther
    \/ Action
    \/ Draw
    \/ DrawAbort

Spec == Init /\ [][Next]_vars

\* ======================================================================
\* Properties
\* ======================================================================
\* Menu::new has returned a Menu
HasMenu == pc \notin {"start", "new_panicked"}
\* show is running the loop of run_navigation
InLoop == pc \in {"read", "action", "draw"}
NumOptions == Len(menu.options)
\* the bounds of page `page` under the layout of the menu
FirstOf(page) == page * menu.options_per_page
LastOf(page) ==
    (IF (page + 1) * menu.options_per_page < NumOptions
     THEN (page + 1) * menu.options_per_page ELSE NumOptions) - 1
Nav(m) == <<m.selected_page, m.selected_option, m.page_start, m.page_end>>

\* C1: in every state reachable from Menu::new by any keys, the selection
\* lies on the current page: page_start <= selected_option <= page_end, and
\* page_start, page_end are the bounds of selected_page.
C1_SelectionOnPage ==
    HasMenu =>
        /\ menu.page_start <= menu.selected_option
        /\ menu.selected_option <= menu.page_end
        /\ menu.page_start = FirstOf(menu.selected_page)
        /\ menu.page_end = LastOf(menu.selected_page)

\* a Down key has moved the selection to the last option of a later page
C1_Witness ==
    /\ pc = "read"
    /\ key \in DownKeys
    /\ menu.selected_page > 0
    /\ menu.page_end > menu.page_start
    /\ menu.selected_option = menu.page_end

\* the step that reads Enter / that runs the selected option's action
ReadsConfirm == pc = "read" /\ key' \in ConfirmKeys
\* exactly one more call of the action of option i, none of any other
CalledOnce(i) ==
    /\ DOMAIN invoked' = DOMAIN invoked
    /\ \A j \in DOMAIN invoked :
          invoked'[j] = invoked[j] + (IF j = i THEN 1 ELSE 0)

\* C2: with exit_on_action = true, Confirm while option i is selected calls
\* the action of option i exactly once and no other action, and then the loop
\* ends: show returns without reading another key.
C2_ConfirmExits ==
    [][/\ (ReadsConfirm /\ menu.exit_on_action) =>
              /\ pc' = "action"
              /\ invoked' = invoked
              /\ menu' = menu
       /\ (pc = "action" /\ menu.exit_on_action) =>
              /\ CalledOnce(menu.selected_option)
              /\ pc' = "idle"
              /\ key' = key
              /\ menu' = menu]_vars

\* 3 options on one page, option 1 selected, Enter: its action ran once, show
\* has returned
C2_Witness ==
    /\ pc = "idle"
    /\ key \in ConfirmKeys
    /\ menu.exit_on_action
    /\ NumOptions = 3
    /\ menu.num_pages = 1
    /\ menu.selected_option = 1
    /\ invoked = [i \in 0..2 |-> IF i = 1 THEN 1 ELSE 0]

\* C3: with exit_on_action = false, every Confirm calls the selected option's
\* action exactly once, the selection is unchanged and the loop goes on (to
\* its redraw and the next read_key); the loop ends only by an Exit key.
C3_ConfirmContinues ==
    [][/\ (ReadsConfirm /\ ~menu.exit_on_action) =>
              /\ pc' = "action"
              /\ invoked' = invoked
              /\ menu' = menu
              /\ cursor' = cursor /\ screen' = screen
       /\ (pc = "action" /\ ~menu.exit_on_action) =>
              /\ CalledOnce(menu.selected_option)
              /\ pc' = "draw"
              /\ menu' = menu
       /\ (InLoop /\ ~menu.exit_on_action /\ pc' = "idle") => key' \in ExitKeys
       /\ (pc = "draw" /\ pc' = "read") => (menu' = menu /\ invoked' = invoked)]_vars

\* two Confirms in a row on option 1: its action ran twice, the loop reads on
C3_Witness ==
    /\ pc = "read"
    /\ key \in ConfirmKeys
    /\ ~menu.exit_on_action
    /\ menu.selected_option = 1
    /\ invoked[1] = 2
    /\ invoked[0] = 0

\* C4: Menu::new on an empty option list panics before any terminal output
\* and returns no Menu; on a non-empty list it always returns a Menu, whose
\* option list is never empty.
C4_NewContract ==
    /\ call.n = 0 => (pc = "new_panicked" /\ screen = "untouched" /\ menu = NoMenu)
    /\ call.n >= 1 => pc # "new_panicked"
    /\ HasMenu => NumOptions >= 1

\* C5: for n >= 1 options and r terminal rows, Menu::new sets
\* options_per_page = clamp(r - 6, 1, n) (the difference taken in the
\* integers, so 1 for r < 6) and num_pages = ceil(n / options_per_page).
C5_Layout ==
    (pc = "idle" /\ call.n >= 1) =>
        /\ menu.options_per_page = clamp(call.rows - ReservedRows, 1, call.n)
        /\ menu.num_pages =
               (call.n + menu.options_per_page - 1) \div menu.options_per_page
        /\ menu.num_pages * menu.options_per_page >= call.n
        /\ (menu.num_pages - 1) * menu.options_per_page < call.n

\* C6: Up on (page 0, option 0), Down on the last option of the last page,
\* Left on page 0 and Right on the last page leave selected_page,
\* selected_option, page_start and page_end as they are.
C6_BoundaryNoOps ==
    [][pc = "read" =>
          /\ (key' \in UpKeys /\ menu.selected_page = 0 /\ menu.selected_option = 0)
                 => Nav(menu') = Nav(menu)
          /\ (key' \in DownKeys /\ menu.selected_page = menu.num_pages - 1
                 /\ menu.selected_option = NumOptions - 1)
                 => Nav(menu') = Nav(menu)
          /\ (key' \in LeftKeys /\ menu.selected_page = 0)
                 => Nav(menu') = Nav(menu)
          /\ (key' \in RightKeys /\ menu.selected_page = menu.num_pages - 1)
                 => Nav(menu') = Nav(menu)]_vars

\* Right was read on the last of several pages with the selection below the
\* page's first option, and the selection is still there
C6_Witness ==
    /\ pc = "draw"
    /\ key \in RightKeys
    /\ menu.num_pages > 1
    /\ menu.selected_page = menu.num_pages - 1
    /\ menu.selected_option > menu.page_start

Min2(a, b) == IF a < b THEN a ELSE b

\* C7: k Downs from the initial state (page 0, option 0) select option
\* min(k, n - 1) on page selected_option div options_per_page, page j holding
\* the indices j*p .. min((j+1)*p, n) - 1.
C7_DownsCount ==
    downs >= 0 =>
        /\ menu.selected_option = Min2(downs, NumOptions - 1)
        /\ menu.selected_page = menu.selected_option \div menu.options_per_page
        /\ menu.page_start = menu.selected_page * menu.options_per_page
        /\ menu.page_end =
               Min2((menu.selected_page + 1) * menu.options_per_page, NumOptions) - 1

\* 5 options, 4 per page: four Downs land on page 1, option 4
C7_Witness ==
    /\ downs = 4
    /\ pc = "read"
    /\ NumOptions = 5
    /\ menu.options_per_page = 4
    /\ menu.selected_page = 1
    /\ menu.selected_option = 4

\* C8: Up then Down from any state but (page 0, option 0), and Down then Up
\* from any state but the last option of the last page, return to the
\* (selected_page, selected_option) they started from.
C8_RoundTrip ==
    (HasMenu /\ Len(trail) = 2) =>
        /\ (trail[1].kind = "Up" /\ trail[2].kind = "Down"
                /\ trail[1].from # <<0, 0>>)
               => Pos(menu) = trail[1].from
        /\ (trail[1].kind = "Down" /\ trail[2].kind = "Up"
                /\ trail[1].from # <<menu.num_pages - 1, NumOptions - 1>>)
               => Pos(menu) = trail[1].from

\* Up from the first option of a later page went to the page before, Down
\* came back
C8_Witness ==
    /\ pc = "read"
    /\ Len(trail) = 2
    /\ trail[1].kind = "Up" /\ trail[2].kind = "Down"
    /\ trail[1].from[1] > 0
    /\ trail[2].from[1] = trail[1].from[1] - 1
    /\ Pos(menu) = trail[1].from

\* C9: show returns only after an Exit key (Escape, q, Backspace) or after a
\* Confirm with exit_on_action = true, and the cursor is shown when it does.
C9_ReturnsByExitOrConfirm ==
    (pc = "idle" /\ key # NoKey) =>
        /\ key \in ExitKeys \/ (key \in ConfirmKeys /\ menu.exit_on_action)
        /\ cursor = "shown"

\* show has returned after a Confirm following some navigation
C9_Witness ==
    /\ pc = "idle"
    /\ key \in ConfirmKeys
    /\ menu.exit_on_action
    /\ menu.selected_page > 0
    /\ cursor = "shown"

\* C10: an action is called only in response to Confirm: Exit, Up, Down,
\* Left, Right and unrecognised keys call none, whatever exit_on_action is.
C10_OnlyConfirmInvokes ==
    [][/\ (HasMenu /\ invoked' # invoked) => (pc = "action" /\ key \in ConfirmKeys)
       /\ (pc = "read" /\ key' \notin ConfirmKeys) =>
              (invoked' = invoked /\ pc' # "action")]_vars

\* show has returned by an Exit key after some navigation, no action called
C10_Witness ==
    /\ pc = "idle"
    /\ key \in ExitKeys
    /\ menu.selected_option > 0
    /\ \A i \in DOMAIN invoked : invoked[i] = 0

\* the first frame of a show call is on the screen: no key of this session
\* has been read yet
FirstFrame == pc = "read" /\ key = NoKey

\* C11: every call of show starts in the initial navigation state: at its
\* first frame selected_page = 0 and selected_option = 0, whatever keys an
\* earlier show call on the same Menu has read.
C11_ShowStartsFresh ==
    FirstFrame => (menu.selected_page = 0 /\ menu.selected_option = 0)

\* C12: show lays the menu out for the terminal as it is at that call: in a
\* session started on r rows, options_per_page = clamp(r - 6, 1, n) and
\* num_pages = ceil(n / options_per_page), also when r is not the row count
\* Menu::new saw.  (Stated where no row count is below 6: r >= 6 at show, and
\* fewer options per page than options, which a wrapped subtraction in
\* Menu::new never yields.)
C12_LayoutAtShow ==
    (FirstFrame /\ call.rows >= ReservedRows /\ menu.options_per_page < call.n) =>
        /\ menu.options_per_page = clamp(call.rows - ReservedRows, 1, call.n)
        /\ menu.num_pages =
               (call.n + menu.options_per_page - 1) \div menu.options_per_page

\* ======================================================================
\* Menu::draw: the lines of a frame
\* ======================================================================
\* A string under construction is [vis, ansi]: its visible characters and the
\* number of characters of control sequences in it.  format!'s width counts
\* both.
Plain(s) == [vis |-> s, ansi |-> 0]
CharLen(x) == Len(x.vis) + x.ansi
Spaces(k) == [j \in 1..k |-> " "]

RECURSIVE ilog10(_)
ilog10(num) == IF num < 10 THEN 0 ELSE 1 + ilog10(num \div 10)
\* num.checked_ilog10().unwrap_or(0) + 1
num_digs(num) == (IF num = 0 THEN 0 ELSE ilog10(num)) + 1

Digit(d) == <<"0", "1", "2", "3", "4", "5", "6", "7", "8", "9">>[d + 1]
RECURSIVE Decimal(_)
\* format!("{}", n) of an unsigned integer
Decimal(n) ==
    IF n < 10 THEN <<Digit(n)>> ELSE Decimal(n \div 10) \o <<Digit(n % 10)>>

\* "\x1b[1m" (4 characters) and "\x1b[22m" (5)
apply_bold(x) == [x EXCEPT !.ansi = @ + 4 + 5]
\* "\x1b[4m" (4) and "\x1b[24m" (5), line 312
Underline(x) == [x EXCEPT !.ansi = @ + 4 + 5]
\* "\x1b[38;5;{color}m" before, "\x1b[38;5;{fg_color}m" after
switch_fg(m, x, color) ==
    [x EXCEPT !.ansi = @ + (8 + num_digs(color)) + (8 + num_digs(m.fg_color))]
\* format!("{: <width$}", s): spaces up to `width` characters, none beyond
pad_right(x, width) ==
    IF CharLen(x) < width
    THEN [x EXCEPT !.vis = @ \o Spaces(width - CharLen(x))]
    ELSE x
\* "\x1b[48;5;{bg_color}m", the padded text, "\x1b[49m" (5)
apply_bg(m, x, width) ==
    LET padded == pad_right([x EXCEPT !.vis = <<" ", " ">> \o @], width + 4)
    IN  [padded EXCEPT !.ansi = @ + (8 + num_digs(m.bg_color)) + 5]

Line(kind, text, out) == [kind |-> kind, text |-> text, out |-> out]
Bar(m, kind) == Line(kind, <<>>, apply_bg(m, Plain(<<>>), m.max_width))

TitleLines(m) ==
    IF m.title = None THEN <<>>
    ELSE LET ansi_width == 34 + num_digs(m.fg_color) + num_digs(m.title_color)
             title_str == Underline(apply_bold(Plain(m.title[1])))
         IN  <<Line("title", m.title[1],
                    apply_bg(m, switch_fg(m, title_str, m.title_color),
                             m.max_width + ansi_width)),
               Bar(m, "after_title")>>

OptionLine(m, i) ==
    LET label == m.options[i + 1]
    IN  IF i = m.selected_option
        THEN LET ansi_width ==
                     25 + num_digs(m.fg_color) + num_digs(m.selected_color)
             IN  Line("selected", label,
                      apply_bg(m, switch_fg(m, apply_bold(Plain(label)),
                                            m.selected_color),
                               m.max_width + ansi_width))
        ELSE Line("option", label, apply_bg(m, Plain(label), m.max_width))

OptionLines(m) ==
    [j \in 1..(m.page_end - m.page_start + 1) |-> OptionLine(m, m.page_start + j - 1)]

PageText(m) ==
    <<"P", "a", "g", "e", " ">> \o Decimal(m.selected_page + 1)
        \o <<" ", "o", "f", " ">> \o Decimal(m.num_pages)

PageLines(m) ==
    IF m.num_pages > 1
    THEN <<Line("page", PageText(m), apply_bg(m, Plain(PageText(m)), m.max_width))>>
    ELSE <<>>

FooterLines(m) ==
    IF m.message = None THEN <<>>
    ELSE <<Bar(m, "before_footer"),
           Line("footer", m.message[1],
                switch_fg(m, apply_bg(m, Plain(m.message[1]), m.max_width),
                          m.msg_color))>>

\* the lines draw writes between the vertical padding and the flush, each
\* without the indent common to all of them
Frame(m) ==
    <<Bar(m, "top")>> \o TitleLines(m) \o OptionLines(m) \o PageLines(m)
        \o FooterLines(m) \o <<Bar(m, "bottom")>>

\* a frame of the menu is on the screen
FrameShown == pc = "read"
FooterIndexes(f) == {i \in 1..Len(f) : f[i].kind = "footer"}

\* C13: when MenuProps.message is not empty, every frame has a footer line,
\* below the options, whose text is exactly MenuProps.message; when it is
\* empty, no frame has a footer line.
C13_FooterIsMessage ==
    FrameShown =>
        LET f == Frame(menu)
        IN  IF config.message # <<>>
            THEN \E i \in FooterIndexes(f) :
                    /\ f[i].text = config.message
                    /\ \A j \in 1..Len(f) :
                          f[j].kind \in {"option", "selected"} => j < i
            ELSE FooterIndexes(f) = {}

\* C14: every line of the box of a frame has the same visible width,
\* max_width + 4, control sequences not counted.
C14_UniformWidth ==
    FrameShown =>
        \A i \in 1..Len(Frame(menu)) :
            Len(Frame(menu)[i].out.vis) = menu.max_width + 4

PageSize(m) == m.page_end - m.page_start + 1

\* C15: in every reachable state the page bounds agree with the layout:
\* selected_page < num_pages, page_start = selected_page * options_per_page,
\* page_end < option count, 1 <= page size <= options_per_page, and the page
\* size is options_per_page on every page but possibly the last.
C15_PageBounds ==
    HasMenu =>
        /\ menu.selected_page >= 0
        /\ menu.selected_page < menu.num_pages
        /\ menu.page_start = menu.selected_page * menu.options_per_page
        /\ menu.page_end < NumOptions
        /\ 1 <= PageSize(menu)
        /\ PageSize(menu) <= menu.options_per_page
        /\ menu.selected_page < menu.num_pages - 1
               => PageSize(menu) = menu.options_per_page

\* Right has led to a last page shorter than options_per_page
C15_Witness ==
    /\ pc = "read"
    /\ key \in RightKeys
    /\ menu.selected_page = menu.num_pages - 1
    /\ menu.selected_page > 0
    /\ PageSize(menu) < menu.options_per_page

\* C16: a key that changes selected_page moves to an adjacent page (Up, Left:
\* page - 1; Down, Right: page + 1) and selects the first option of the new
\* page, except Up on the first option of a page, which selects the last
\* option of the page before (selected_option - 1).
C16_PageChange ==
    [][/\ (pc = "read" /\ menu'.selected_page # menu.selected_page) =>
              \/ /\ key' \in UpKeys
                 /\ menu.selected_option = menu.page_start
                 /\ menu.selected_page > 0
                 /\ menu'.selected_page = menu.selected_page - 1
                 /\ menu'.selected_option = menu'.page_end
                 /\ menu'.selected_option = menu.selected_option - 1
              \/ /\ key' \in LeftKeys
                 /\ menu'.selected_page = menu.selected_page - 1
                 /\ menu'.selected_option = menu'.page_start
                 /\ menu'.page_start = menu'.selected_page * menu.options_per_page
              \/ /\ key' \in DownKeys \cup RightKeys
                 /\ menu'.selected_page = menu.selected_page + 1
                 /\ menu'.selected_option = menu'.page_start
                 /\ menu'.page_start = menu'.selected_page * menu.options_per_page
       /\ (HasMenu /\ pc # "read") => menu' = menu]_vars

\* Up on the first option of a later page has selected the last option of the
\* page before, a page of several options
C16_Witness ==
    /\ pc = "draw"
    /\ key \in UpKeys
    /\ Len(trail) >= 1
    /\ trail[Len(trail)].from[1] = menu.selected_page + 1
    /\ trail[Len(trail)].from[2] = menu.selected_option + 1
    /\ menu.selected_option = menu.page_end
    /\ menu.page_end > menu.page_start

\* C17 as claimed: in a session ended by Confirm with exit_on_action = true
\* the action is invoked before the cursor is restored and the screen
\* cleared: when the action is called the cursor is still hidden and the
\* frame still on the screen.
C17_ActionBeforeExit ==
    (pc = "action" /\ menu.exit_on_action) =>
        (cursor = "hidden" /\ screen = "frame")

\* C17 as the code has it: on Confirm with exit_on_action = true the cursor is
\* restored and the screen cleared first (exit), no action called yet; then
\* the selected option's action is called once and show returns, the cursor
\* shown.
C17_ExitBeforeAction ==
    [][/\ (ReadsConfirm /\ menu.exit_on_action) =>
              /\ cursor' = "shown"
              /\ screen' = "cleared"
              /\ invoked' = invoked
              /\ pc' = "action"
       /\ (pc = "action" /\ menu.exit_on_action) =>
              /\ cursor = "shown"
              /\ screen = "cleared"
              /\ CalledOnce(menu.selected_option)
              /\ cursor' = "shown"
              /\ pc' = "idle"]_vars

\* exit has run, the action of the selected option is about to be called
C17_Witness ==
    /\ pc = "action"
    /\ menu.exit_on_action
    /\ key \in ConfirmKeys
    /\ cursor = "shown"
    /\ screen = "cleared"
    /\ menu.selected_option > 0
    /\ \A i \in DOMAIN invoked : invoked[i] = 0

\* C18 as claimed: with exit_on_action = false the outer menu is not redrawn
\* between the return of an action and the next read_key: at the first read
\* after an action that ran a nested menu's show (which left the cursor
\* shown), the screen is still as that menu's exit left it.
C18_NoRedrawAfterAction ==
    (pc = "read" /\ key \in ConfirmKeys /\ cursor = "shown") => screen = "cleared"

\* C18 as the code has it: with exit_on_action = false the step after an
\* action's return is the draw of line 274, and every read_key of the loop
\* follows a draw of the menu, whose frame is then on the screen.
C18_RedrawAfterAction ==
    [][/\ (pc = "action" /\ ~menu.exit_on_action) => pc' = "draw"
       /\ (InLoop /\ pc' = "read") => (pc = "draw" /\ screen' = "frame")]_vars

\* the loop reads again after an action that ran a nested menu: the outer
\* frame is back on the screen
C18_Witness ==
    /\ pc = "read"
    /\ key \in ConfirmKeys
    /\ ~menu.exit_on_action
    /\ cursor = "shown"
    /\ screen = "frame"
    /\ invoked[menu.selected_option] >= 1

\* C19: the cursor is hidden whenever a menu's loop is blocked in read_key,
\* also in an outer menu (exit_on_action = false) that reads on after one of
\* its actions ran a nested menu's show to its end.
C19_CursorHiddenAtRead ==
    pc = "read" => cursor = "hidden"

\* C20: the centering arithmetic of draw never underflows: for every terminal
\* size and every menu, cols/2 >= (max_width + 4)/2 and
\* rows/2 >= (options_per_page + extra_lines)/2, and draw completes.
C20_NoUnderflow ==
    /\ pc # "aborted"
    /\ pc \in {"idle", "draw"} =>
          \A rows \in TermRows, cols \in TermCols :
              /\ ExtraLines(menu) \in 2..5
              /\ cols \div 2 >= (menu.max_width + 4) \div 2
              /\ rows \div 2 >= (menu.options_per_page + ExtraLines(menu)) \div 2

====
